---- MODULE Spec2Model ----
(***************************************************************************)
(* A model of bubz2: the slicepat wildcard matcher (lib.rs, pattern.rs,    *)
(* u8_buf.rs), the ignore table of the command line tool (main.rs) and its *)
(* store of last modified times (state.rs).                                *)
(* Slices are sequences of byte values; Option<&[T]> is a record           *)
(* [some, val].                                                            *)
(***************************************************************************)
EXTENDS Integers, Sequences, FiniteSets, TLC

VARIABLES
    endian,     \* the target's byte order, which to_ne_bytes/from_ne_bytes follow
    ctor,       \* how `pat` was built: "none" (not yet), "new" (Pattern::new), "parse" (Pattern::parse)
    template,   \* the template handed to Pattern::parse (<<>> under "new")
    pat,        \* the Pattern: [flags |-> u8 bit set, pieces |-> U8Pieces buffer]
    op,         \* the last matching call: "none", "first_match", "matches", "suffix_matches"
    strategy,   \* the Matcher of the last call
    haystack,   \* the haystack of the last call
    result,     \* what the last call returned
    built,      \* how `buf` was built: "none", "new", "from", "from_iter"
    pieces_buf, \* a U8Pieces: its Vec<u8>
    pushed,     \* the pieces handed to the constructors and to push, in order
    map,        \* the PatternMap: a function from Pattern to Directive
    file,       \* the lines of the ignore file read_from was given
    inserts,    \* the (pattern text, directive) pairs read_from handed to insert, in order
    mop,        \* the PatternMap call that just ran: "none", "read_from", "insert", "has_match"
    path,       \* the haystack of the last has_match
    excluded,   \* what the last has_match returned
    source,     \* State.source: the bytes of the backing file
    cursor,     \* the position of the backing file's cursor
    data,       \* State.data: a function from path to StateValue [offset, time]
    sop         \* the State call that just ran: "empty", "read_all", "read_failed", "set_time_of"

matchVars == <<ctor, template, pat, op, strategy, haystack, result>>

bufVars == <<built, pieces_buf, pushed>>

mapVars == <<map, file, inserts, mop, path, excluded>>

storeVars == <<source, cursor, data, sop>>

----------------------------------------------------------------------------
\* Bounds and input alphabets

\* Longest template handed to Pattern::parse, and longest haystack or path.
MaxLen == 3

\* '*', '/', '\', 'a'
TemplateBytes == {42, 47, 92, 97}

\* '/', 'A', '\': against the template bytes these give an equal pair ('/', '/'),
\* a pair equal only up to ASCII case ('a', 'A'), both separator pairs
\* ('/', '\' and '\', '/') and plain mismatches ('a', '/').
HaystackBytes == {47, 65, 92}

SeqsUpTo(S, n) == UNION {[1..k -> S] : k \in 0..n}

Templates == SeqsUpTo(TemplateBytes, MaxLen)

Haystacks == SeqsUpTo(HaystackBytes, MaxLen)

\* Longest piece handed to U8Pieces, and the most pieces one buffer is given.
MaxPieceLen == 2

MaxPushes == 3

\* Piece bytes that also occur in length prefixes
PieceBytes == {0, 1}

PushPieces == SeqsUpTo(PieceBytes, MaxPieceLen)

PushLists == SeqsUpTo(PushPieces, MaxPushes)

\* Longest line of an ignore file, in characters, and the most lines of a file.
MaxLineChars == 2

MaxLines == 2

\* The characters of ignore-file lines, each as its UTF-8 bytes:
\* ' ', '!', '#', '*', '\', 'a' and the two-byte U+00E9
LineChars == {<<32>>, <<33>>, <<35>>, <<42>>, <<92>>, <<97>>, <<195, 169>>}

RECURSIVE Flatten(_)
Flatten(ss) == IF ss = <<>> THEN <<>> ELSE Head(ss) \o Flatten(Tail(ss))

Lines == {Flatten(cs) : cs \in SeqsUpTo(LineChars, MaxLineChars)}

Files == SeqsUpTo(Lines, MaxLines)

\* Longest template inserted into a table directly, longest path looked up in
\* it, and the most entries of such a table.
MaxTableLen == 2

MaxEntries == 3

\* '*', '/'
TableBytes == {42, 47}

TableTemplates == SeqsUpTo(TableBytes, MaxTableLen)

\* '/', 'A'
TablePathBytes == {47, 65}

TablePaths == SeqsUpTo(TablePathBytes, MaxTableLen)

Directives == {"Include", "Exclude"}

Strategies == {"ExactMatch", "CaseInsensitive", "PathMatch"}

Endians == {"little", "big"}

\* The paths handed to set_time_of: no comma, no newline, no white space
StorePaths == {<<97>>, <<98>>, <<97, 98>>}

\* The modification times handed to set_time_of, all below 2^32
StoreTimes == {0, 10, 255}

----------------------------------------------------------------------------
\* Option<&[T]>

None == [some |-> FALSE, val |-> <<>>]

Some(x) == [some |-> TRUE, val |-> x]

\* slice[from..] with a 0-based start
SliceFrom(s, from) == SubSeq(s, from + 1, Len(s))

\* slice[from..from + n], the window of n elements at 0-based offset `from`
Window(s, from, n) == SubSeq(s, from + 1, from + n)

----------------------------------------------------------------------------
\* Equivalence strategies (lib.rs)

\* u8::to_ascii_lowercase
to_ascii_lowercase(b) == IF b >= 65 /\ b <= 90 THEN b + 32 ELSE b

\* u8::eq_ignore_ascii_case
u8_eq_ignore_ascii_case(a, b) == to_ascii_lowercase(a) = to_ascii_lowercase(b)

ExactMatch_is_equal(a, b) == a = b

CaseInsensitive_is_equal(a, b) ==
    /\ Len(a) = Len(b)
    /\ \A i \in 1..Len(a) : u8_eq_ignore_ascii_case(a[i], b[i])

\* PathMatch::is_equal with only the ('/', '\') arm of the separator match
PathMatch_is_equal_one_arm(a, b) ==
    IF Len(a) # Len(b) THEN FALSE
    ELSE \A i \in 1..Len(a) :
            \/ u8_eq_ignore_ascii_case(a[i], b[i])
            \/ (a[i] = 47 /\ b[i] = 92)

PathMatch_is_equal(a, b) ==
    IF Len(a) # Len(b) THEN FALSE
    ELSE \A i \in 1..Len(a) :
            \/ u8_eq_ignore_ascii_case(a[i], b[i])
            \/ (a[i] = 47 /\ b[i] = 92)
            \/ (a[i] = 92 /\ b[i] = 47)

is_equal(m, a, b) ==
    CASE m = "ExactMatch" -> ExactMatch_is_equal(a, b)
      [] m = "CaseInsensitive" -> CaseInsensitive_is_equal(a, b)
      [] m = "PathMatch" -> PathMatch_is_equal(a, b)

----------------------------------------------------------------------------
\* The two matching procedures (lib.rs)

SetMin(S) == CHOOSE x \in S : \A y \in S : x <= y

\* haystack.windows(piece_len).position(|window| matcher.is_equal(piece, window)):
\* the offsets of all equivalent windows; position() takes the lowest.
WindowOffsets(piece, m, hay) ==
    {o \in 0..(Len(hay) - Len(piece)) : is_equal(m, piece, Window(hay, o, Len(piece)))}

\* suffix_matches_impl continuing at the found window instead of after it
RECURSIVE suffix_matches_impl_overlapping(_, _, _)
suffix_matches_impl_overlapping(pieces, m, hay) ==
    IF pieces = <<>> THEN Some(hay)
    ELSE LET piece == Head(pieces)
             piece_len == Len(piece)
         IN  IF piece_len > 0
             THEN LET offs == WindowOffsets(piece, m, hay)
                  IN  IF offs = {} THEN None
                      ELSE suffix_matches_impl_overlapping(Tail(pieces), m,
                                                           SliceFrom(hay, SetMin(offs)))
             ELSE suffix_matches_impl_overlapping(Tail(pieces), m, hay)

\* suffix_matches_impl taking the last equivalent window instead of the first
RECURSIVE suffix_matches_impl_last_window(_, _, _)
suffix_matches_impl_last_window(pieces, m, hay) ==
    IF pieces = <<>> THEN Some(hay)
    ELSE LET piece == Head(pieces)
             piece_len == Len(piece)
             offs == WindowOffsets(piece, m, hay)
         IN  IF piece_len = 0
             THEN suffix_matches_impl_last_window(Tail(pieces), m, hay)
             ELSE IF offs = {} THEN None
             ELSE suffix_matches_impl_last_window(Tail(pieces), m,
                      SliceFrom(hay, (CHOOSE o \in offs : \A q \in offs : q <= o) + piece_len))

RECURSIVE suffix_matches_impl(_, _, _)
suffix_matches_impl(pieces, m, hay) ==
    IF pieces = <<>> THEN Some(hay)
    ELSE LET piece == Head(pieces)
             piece_len == Len(piece)
         IN  IF piece_len > 0
             THEN LET offs == WindowOffsets(piece, m, hay)
                  IN  IF offs = {} THEN None
                      ELSE suffix_matches_impl(Tail(pieces), m,
                                               SliceFrom(hay, SetMin(offs) + piece_len))
             ELSE suffix_matches_impl(Tail(pieces), m, hay)

\* matches_impl returning the haystack for an empty piece sequence, unchecked
matches_impl_no_empty_check(pieces, m, hay) ==
    IF pieces = <<>>
    THEN Some(hay)
    ELSE LET first == Head(pieces)
         IN  IF Len(first) > Len(hay) THEN None
             ELSE IF is_equal(m, first, Window(hay, 0, Len(first)))
                  THEN suffix_matches_impl(Tail(pieces), m, SliceFrom(hay, Len(first)))
                  ELSE None

matches_impl(pieces, m, hay) ==
    IF pieces = <<>>
    THEN IF hay = <<>> THEN Some(hay) ELSE None
    ELSE LET first == Head(pieces)
         IN  IF Len(first) > Len(hay) THEN None
             ELSE IF is_equal(m, first, Window(hay, 0, Len(first)))
                  THEN suffix_matches_impl(Tail(pieces), m, SliceFrom(hay, Len(first)))
                  ELSE None

matches(pieces, m, hay) == matches_impl(pieces, m, hay)

suffix_matches(pieces, m, hay) == suffix_matches_impl(pieces, m, hay)

----------------------------------------------------------------------------
\* The packed piece buffer (u8_buf.rs)

\* size_of::<usize>() on a 64-bit target
size_of_usize == 8

\* 256^k for k < 3; lengths in the model stay below 256^3, so the bytes of a
\* usize from the fourth on are zero when encoded, and a non-zero one when
\* decoded means a length of at least 256^3.
Pow256(k) == CASE k = 0 -> 1 [] k = 1 -> 256 [] k = 2 -> 65536

\* The significance (0 = lowest) of the i-th byte in memory order
ByteRank(i, e) == IF e = "little" THEN i - 1 ELSE size_of_usize - i

\* usize::to_ne_bytes
to_ne_bytes(n, e) ==
    [i \in 1..size_of_usize |->
        IF ByteRank(i, e) < 3 THEN (n \div Pow256(ByteRank(i, e))) % 256 ELSE 0]

RECURSIVE SumTo(_, _)
SumTo(f, n) == IF n = 0 THEN 0 ELSE f[n] + SumTo(f, n - 1)

\* usize::from_ne_bytes (saturating at 256^3, above every buffer length here)
from_ne_bytes(bs, e) ==
    IF \E i \in 1..size_of_usize : ByteRank(i, e) >= 3 /\ bs[i] # 0
    THEN 16777216
    ELSE SumTo([i \in 1..size_of_usize |->
                   IF ByteRank(i, e) < 3 THEN bs[i] * Pow256(ByteRank(i, e)) ELSE 0],
               size_of_usize)

U8Pieces_new == <<>>

\* U8Pieces::push without the piece_len > 0 test
U8Pieces_push_unchecked(buf, piece, e) ==
    buf \o to_ne_bytes(Len(piece), e) \o piece

U8Pieces_push(buf, piece, e) ==
    IF Len(piece) > 0 THEN buf \o to_ne_bytes(Len(piece), e) \o piece ELSE buf

RECURSIVE U8Pieces_push_all(_, _, _)
U8Pieces_push_all(buf, ps, e) ==
    IF ps = <<>> THEN buf
    ELSE U8Pieces_push_all(U8Pieces_push(buf, Head(ps), e), Tail(ps), e)

\* impl FromIterator<&[u8]> for U8Pieces
U8Pieces_from_iter(ps, e) == U8Pieces_push_all(U8Pieces_new, ps, e)

\* impl From<T: AsRef<[&[u8]]>> for U8Pieces (with_capacity only reserves)
U8Pieces_from(ps, e) == U8Pieces_push_all(U8Pieces_new, ps, e)

\* U8PiecesIter::next until it returns None, collected
RECURSIVE U8Pieces_pieces(_, _)
U8Pieces_pieces(buf, e) ==
    IF Len(buf) < size_of_usize THEN <<>>
    ELSE LET piece_len == from_ne_bytes(SubSeq(buf, 1, size_of_usize), e)
             after_len == SliceFrom(buf, size_of_usize)
         IN  IF piece_len > Len(after_len) THEN <<>>
             ELSE <<Window(after_len, 0, piece_len)>>
                      \o U8Pieces_pieces(SliceFrom(after_len, piece_len), e)

----------------------------------------------------------------------------
\* Pattern and PatternFlags (pattern.rs)

\* b'*', the marker the tool and the tests parse with
WILDCARD == 42

FLAG_START_UNANCHORED == 1

FLAG_END_ANCHORED == 2

\* a | bit, for a one-bit mask
BitOr(f, bit) == IF (f \div bit) % 2 = 1 THEN f ELSE (f + bit) % 256

PatternFlags_empty == 0

is_start_unanchored(f) == (f \div FLAG_START_UNANCHORED) % 2 # 0

with_start_unanchored(f) == BitOr(f, FLAG_START_UNANCHORED)

is_end_anchored(f) == (f \div FLAG_END_ANCHORED) % 2 # 0

with_end_anchored(f) == BitOr(f, FLAG_END_ANCHORED)

Pattern_new(pieces, flags) == [flags |-> flags, pieces |-> pieces]

\* slice::split(|t| t == wildcard): the fragments between markers, empty ones included
RECURSIVE SplitAt(_, _, _)
SplitAt(s, w, cur) ==
    IF s = <<>> THEN <<cur>>
    ELSE IF Head(s) = w THEN <<cur>> \o SplitAt(Tail(s), w, <<>>)
         ELSE SplitAt(Tail(s), w, Append(cur, Head(s)))

slice_split(s, w) == SplitAt(s, w, <<>>)

\* Pattern::parse end-anchoring only a template that has a last element
Pattern_parse_last_is_some(pattern, wildcard, e) ==
    LET f0 == PatternFlags_empty
        f1 == IF pattern # <<>> /\ pattern[1] = wildcard
              THEN with_start_unanchored(f0) ELSE f0
        f2 == IF pattern # <<>> /\ pattern[Len(pattern)] # wildcard
              THEN with_end_anchored(f1) ELSE f1
    IN  [flags |-> f2, pieces |-> U8Pieces_from_iter(slice_split(pattern, wildcard), e)]

Pattern_parse(pattern, wildcard, e) ==
    LET f0 == PatternFlags_empty
        f1 == IF pattern # <<>> /\ pattern[1] = wildcard
              THEN with_start_unanchored(f0) ELSE f0
        f2 == IF ~(pattern # <<>> /\ pattern[Len(pattern)] = wildcard)
              THEN with_end_anchored(f1) ELSE f1
    IN  [flags |-> f2, pieces |-> U8Pieces_from_iter(slice_split(pattern, wildcard), e)]

first_match(p, m, hay, e) ==
    LET rest == IF is_start_unanchored(p.flags)
                THEN suffix_matches_impl(U8Pieces_pieces(p.pieces, e), m, hay)
                ELSE matches_impl(U8Pieces_pieces(p.pieces, e), m, hay)
    IN  IF rest.some /\ (~is_end_anchored(p.flags) \/ rest.val = <<>>)
        THEN rest ELSE None

----------------------------------------------------------------------------
\* PatternMap (main.rs)

PatternMap_new == <<>>

\* FxHashMap::insert: a present key keeps its place and takes the new value
PatternMap_insert(mp, pattern, directive) ==
    [p \in (DOMAIN mp) \cup {pattern} |-> IF p = pattern THEN directive ELSE mp[p]]

\* The orders self.0.iter() may visit the entries in: the hash map promises none.
IterOrders(mp) ==
    {[i \in 1..Cardinality(DOMAIN mp) |-> [pattern |-> f[i], directive |-> mp[f[i]]]] :
        f \in {g \in [1..Cardinality(DOMAIN mp) -> DOMAIN mp] :
                  \A i, j \in 1..Cardinality(DOMAIN mp) : g[i] = g[j] => i = j}}

\* PatternMap::has_match returning at the first match of either directive
RECURSIVE has_match_first_wins(_, _, _)
has_match_first_wins(entries, hay, e) ==
    IF entries = <<>> THEN FALSE
    ELSE IF first_match(Head(entries).pattern, "PathMatch", hay, e).some
         THEN Head(entries).directive = "Include"
         ELSE has_match_first_wins(Tail(entries), hay, e)

\* PatternMap::has_match counting every visited entry as a match
has_match_any_entry(entries, hay, e) ==
    /\ entries # <<>>
    /\ \A i \in 1..Len(entries) :
          first_match(entries[i].pattern, "PathMatch", hay, e).some
              => entries[i].directive = "Include"

\* PatternMap::has_match letting the last matching entry visited decide
has_match_last_decides(entries, hay, e) ==
    LET hits == {i \in 1..Len(entries) :
                    first_match(entries[i].pattern, "PathMatch", hay, e).some}
    IN  /\ hits # {}
        /\ entries[CHOOSE i \in hits : \A j \in hits : j <= i].directive = "Include"

\* The loop of has_match over the entries in iteration order
RECURSIVE has_match_loop(_, _, _, _)
has_match_loop(entries, hay, one_matched, e) ==
    IF entries = <<>> THEN one_matched
    ELSE IF first_match(Head(entries).pattern, "PathMatch", hay, e).some
         THEN IF Head(entries).directive = "Include"
              THEN has_match_loop(Tail(entries), hay, TRUE, e)
              ELSE FALSE
         ELSE has_match_loop(Tail(entries), hay, one_matched, e)

has_match(entries, hay, e) == has_match_loop(entries, hay, FALSE, e)

\* char::is_whitespace on the one-byte characters; the lines of the model hold
\* no multi-byte white space
is_whitespace(b) == b \in {9, 10, 11, 12, 13, 32}

RECURSIVE trim_start(_)
trim_start(s) ==
    IF s # <<>> /\ is_whitespace(Head(s)) THEN trim_start(Tail(s)) ELSE s

RECURSIVE trim_end(_)
trim_end(s) ==
    IF s # <<>> /\ is_whitespace(s[Len(s)]) THEN trim_end(SubSeq(s, 1, Len(s) - 1)) ELSE s

\* str::trim
str_trim(s) == trim_end(trim_start(s))

\* str::is_char_boundary: the start, the end, or a byte that continues no
\* UTF-8 sequence; false past the end
is_char_boundary(s, index) ==
    \/ index = 0
    \/ index = Len(s)
    \/ index < Len(s) /\ ~(s[index + 1] >= 128 /\ s[index + 1] <= 191)

\* BufRead::read_line on a line of the file: the line with its terminator
read_line(line) == line \o <<10>>

\* One turn of read_from's loop up to the insert: what the line registers, if anything
line_entry(line) ==
    LET trimmed_line == str_trim(read_line(line))
    IN  IF ~is_char_boundary(trimmed_line, 1) THEN None
        ELSE LET first == trimmed_line[1]
                 rest == SliceFrom(trimmed_line, 1)
             IN  CASE first = 35 -> None
                   [] first = 33 -> Some([text |-> rest, directive |-> "Exclude"])
                   [] first = 92 -> Some([text |-> rest, directive |-> "Include"])
                   [] OTHER -> Some([text |-> trimmed_line, directive |-> "Include"])

\* The insert calls of read_from over the lines, in order
RECURSIVE read_from_inserts(_)
read_from_inserts(lines) ==
    IF lines = <<>> THEN <<>>
    ELSE LET ent == line_entry(Head(lines))
         IN  (IF ent.some THEN <<ent.val>> ELSE <<>>) \o read_from_inserts(Tail(lines))

\* PatternMap::read_from
RECURSIVE read_from(_, _, _)
read_from(mp, lines, e) ==
    IF lines = <<>> THEN mp
    ELSE LET ent == line_entry(Head(lines))
         IN  IF ent.some
             THEN read_from(PatternMap_insert(mp, Pattern_parse(ent.val.text, WILDCARD, e),
                                              ent.val.directive),
                            Tail(lines), e)
             ELSE read_from(mp, Tail(lines), e)

----------------------------------------------------------------------------
\* State, the store of last modified times (state.rs)

\* State::empty: no time associations
State_empty == <<>>

\* One lower-case hexadecimal digit
hex_char(d) == IF d < 10 THEN 48 + d ELSE 87 + d

\* {time:x}: the hexadecimal digits of the time, most significant first
RECURSIVE hex_digits(_)
hex_digits(n) ==
    IF n < 16 THEN <<hex_char(n)>>
    ELSE Append(hex_digits(n \div 16), hex_char(n % 16))

\* {time:08x}: zero-padded on the left to at least eight digits
hex_08x(n) ==
    LET ds == hex_digits(n)
    IN  IF Len(ds) >= 8 THEN ds ELSE [i \in 1..(8 - Len(ds)) |-> 48] \o ds

\* State::format_line
format_line(p, time) == hex_08x(time) \o <<44>> \o p

\* char::to_digit(16): the value of a hexadecimal digit, or -1
to_digit(c) ==
    IF c \in 48..57 THEN c - 48
    ELSE IF c \in 97..102 THEN c - 87
    ELSE IF c \in 65..70 THEN c - 55
    ELSE -1

RECURSIVE digits_value(_, _)
digits_value(ds, acc) ==
    IF ds = <<>> THEN acc ELSE digits_value(Tail(ds), acc * 16 + to_digit(Head(ds)))

\* u64::from_str_radix(secs, 16): an optional '+', then one or more digits.
\* Every number the store reads back is one its eight-digit format wrote, so
\* the u64 overflow error is out of reach.
from_str_radix(secs) ==
    LET ds == IF secs # <<>> /\ Head(secs) = 43 THEN Tail(secs) ELSE secs
    IN  IF ds = <<>> \/ \E i \in 1..Len(ds) : to_digit(ds[i]) < 0
        THEN [ok |-> FALSE, val |-> 0]
        ELSE [ok |-> TRUE, val |-> digits_value(ds, 0)]

\* str::split_once(','): the text before and after the first comma
split_once(s, c) ==
    LET at == {i \in 1..Len(s) : s[i] = c}
    IN  IF at = {} THEN None
        ELSE Some([before |-> SubSeq(s, 1, SetMin(at) - 1),
                   after |-> SubSeq(s, SetMin(at) + 1, Len(s))])

\* State::parse_line
parse_line(line_str) ==
    LET parts == split_once(line_str, 44)
    IN  IF ~parts.some THEN [ok |-> FALSE, p |-> <<>>, time |-> 0]
        ELSE LET secs == from_str_radix(parts.val.before)
             IN  IF ~secs.ok THEN [ok |-> FALSE, p |-> <<>>, time |-> 0]
                 ELSE [ok |-> TRUE, p |-> trim_end(parts.val.after), time |-> secs.val]

\* FxHashMap::insert on State.data
data_insert(dat, p, value) ==
    [q \in (DOMAIN dat) \cup {p} |-> IF q = p THEN value ELSE dat[q]]

\* BufRead::read_line: the number of bytes up to and including the next
\* newline, or all that is left
read_line_length(rest) ==
    LET nl == {i \in 1..Len(rest) : rest[i] = 10}
    IN  IF nl = {} THEN Len(rest) ELSE SetMin(nl)

\* The loop of read_all_from_cur: `rest` is what the reader has left, `line`
\* the String read_line appends to, which a blank line leaves uncleared.
RECURSIVE read_loop(_, _, _, _)
read_loop(rest, offset, line, dat) ==
    LET length == read_line_length(rest)
        line_read == line \o SubSeq(rest, 1, length)
        line_str == str_trim(line_read)
        parsed == parse_line(line_str)
    IN  IF length = 0 THEN [ok |-> TRUE, data |-> dat]
        ELSE IF line_str = <<>>
        THEN read_loop(SliceFrom(rest, length), offset + length, line_read, dat)
        ELSE IF ~parsed.ok THEN [ok |-> FALSE, data |-> dat]
        ELSE read_loop(SliceFrom(rest, length), offset + length, <<>>,
                       data_insert(dat, parsed.p, [offset |-> offset, time |-> parsed.time]))

\* State::read_all_from_cur: the offsets count from the cursor
read_all_from_cur(src, cur, dat) == read_loop(SliceFrom(src, cur), 0, <<>>, dat)

\* State::read_all: seek(SeekFrom::Start(0)), then read_all_from_cur
read_all(src, dat) == read_all_from_cur(src, 0, dat)

\* State::time_of
time_of(dat, p) == IF p \in DOMAIN dat THEN Some(dat[p].time) ELSE None

\* seek(SeekFrom::Start(pos)) then write_all(bytes): the bytes replace what
\* the file holds from pos on and extend it where they run past its end
write_all(src, pos, bytes) ==
    SubSeq(src, 1, pos) \o bytes \o SubSeq(src, pos + Len(bytes) + 1, Len(src))

\* State::set_time_of
set_time_of(src, dat, p, time) ==
    LET ln == format_line(p, time)
    IN  IF p \in DOMAIN dat
        THEN [source |-> write_all(src, dat[p].offset, ln),
              cursor |-> dat[p].offset + Len(ln),
              data |-> [dat EXCEPT ![p].time = time]]
        ELSE LET offset == Len(src)
                 sep == IF offset # 0 THEN <<10>> ELSE <<>>
             IN  [source |-> write_all(write_all(src, offset, sep), offset + Len(sep), ln),
                  cursor |-> offset + Len(sep) + Len(ln),
                  data |-> data_insert(dat, p, [offset |-> offset, time |-> time])]

----------------------------------------------------------------------------
\* The matcher as a state machine: a pattern is built, then evaluated.

NonEmptyPiece(x) == Len(x) > 0

\* The piece lists Pattern::new is given: every list of non-empty pieces that
\* fits a template of the bounded length.
PieceLists == {SelectSeq(slice_split(t, WILDCARD), NonEmptyPiece) : t \in Templates}

FlagSets ==
    LET f0 == PatternFlags_empty
    IN {f0, with_start_unanchored(f0), with_end_anchored(f0),
             with_end_anchored(with_start_unanchored(f0))}

InitBuf ==
    /\ built = "none"
    /\ pieces_buf = <<>>
    /\ pushed = <<>>

InitMap ==
    /\ map = <<>>
    /\ file = <<>>
    /\ inserts = <<>>
    /\ mop = "none"
    /\ path = <<>>
    /\ excluded = FALSE

InitData ==
    /\ source = <<>>
    /\ cursor = 0
    /\ data = State_empty
    /\ sop = "empty"

NoCall ==
    /\ op' = "none"
    /\ strategy' = "ExactMatch"
    /\ haystack' = <<>>
    /\ result' = None

NoPattern ==
    /\ ctor' = "none"
    /\ template' = <<>>
    /\ pat' = Pattern_new(U8Pieces_new, PatternFlags_empty)

InitMatch ==
    /\ endian = "little"
    /\ ctor = "none"
    /\ template = <<>>
    /\ pat = Pattern_new(U8Pieces_new, PatternFlags_empty)
    /\ op = "none"
    /\ strategy = "ExactMatch"
    /\ haystack = <<>>
    /\ result = None
    /\ InitBuf
    /\ InitMap
    /\ InitData

\* Pattern::parse(t, &b'*') for a template t
Parse ==
    /\ ctor = "none"
    /\ ctor' = "parse"
    /\ \E t \in Templates :
          /\ template' = t
          /\ pat' = Pattern_parse(t, WILDCARD, endian)
    /\ NoCall
    /\ UNCHANGED <<endian, storeVars, bufVars, mapVars>>

\* Pattern::new(U8Pieces::from(ps), flags) for pieces ps and flags of the given sets
New(lists, flagsets) ==
    /\ ctor = "none"
    /\ ctor' = "new"
    /\ template' = <<>>
    /\ \E ps \in lists, flags \in flagsets :
          pat' = Pattern_new(U8Pieces_from(ps, endian), flags)
    /\ NoCall
    /\ UNCHANGED <<endian, storeVars, bufVars, mapVars>>

\* pat.first_match(m, h) for a strategy m and a haystack h
FirstMatch ==
    /\ ctor # "none" /\ op = "none"
    /\ op' = "first_match"
    /\ \E m \in Strategies, h \in Haystacks :
          /\ strategy' = m
          /\ haystack' = h
          /\ result' = first_match(pat, m, h, endian)
    /\ UNCHANGED <<endian, storeVars, ctor, template, pat, bufVars, mapVars>>

\* matches(pat.pieces.pieces(), m, h)
Matches ==
    /\ ctor # "none" /\ op = "none"
    /\ op' = "matches"
    /\ \E m \in Strategies, h \in Haystacks :
          /\ strategy' = m
          /\ haystack' = h
          /\ result' = matches(U8Pieces_pieces(pat.pieces, endian), m, h)
    /\ UNCHANGED <<endian, storeVars, ctor, template, pat, bufVars, mapVars>>

\* suffix_matches(pat.pieces.pieces(), m, h)
SuffixMatches ==
    /\ ctor # "none" /\ op = "none"
    /\ op' = "suffix_matches"
    /\ \E m \in Strategies, h \in Haystacks :
          /\ strategy' = m
          /\ haystack' = h
          /\ result' = suffix_matches(U8Pieces_pieces(pat.pieces, endian), m, h)
    /\ UNCHANGED <<endian, storeVars, ctor, template, pat, bufVars, mapVars>>

\* The caller takes the result; the pattern stays usable for the next call.
Return ==
    /\ op # "none"
    /\ NoCall
    /\ UNCHANGED <<endian, storeVars, ctor, template, pat, bufVars, mapVars>>

\* The pattern goes out of scope.
Drop ==
    /\ ctor # "none" /\ op = "none"
    /\ NoPattern
    /\ NoCall
    /\ UNCHANGED <<endian, storeVars, bufVars, mapVars>>

NextMatch ==
    \/ Parse
    \/ New(PieceLists, FlagSets)
    \/ FirstMatch
    \/ Return
    \/ Drop

\* The free functions matches and suffix_matches over a stored piece list.
NextScan ==
    \/ New(PieceLists, {PatternFlags_empty})
    \/ Matches
    \/ SuffixMatches
    \/ Return
    \/ Drop

----------------------------------------------------------------------------
\* The packed buffer as a state machine: built, then pushed to.

InitPieces ==
    /\ endian \in Endians
    /\ ctor = "none"
    /\ template = <<>>
    /\ pat = Pattern_new(U8Pieces_new, PatternFlags_empty)
    /\ op = "none"
    /\ strategy = "ExactMatch"
    /\ haystack = <<>>
    /\ result = None
    /\ InitBuf
    /\ InitMap
    /\ InitData

\* U8Pieces::new() (with_capacity differs in the reservation only)
PiecesNew ==
    /\ built = "none"
    /\ built' = "new"
    /\ pieces_buf' = U8Pieces_new
    /\ pushed' = <<>>
    /\ UNCHANGED <<endian, storeVars, matchVars, mapVars>>

\* U8Pieces::from(ps)
PiecesFrom ==
    /\ built = "none"
    /\ built' = "from"
    /\ \E ps \in PushLists :
          /\ pieces_buf' = U8Pieces_from(ps, endian)
          /\ pushed' = ps
    /\ UNCHANGED <<endian, storeVars, matchVars, mapVars>>

\* ps.into_iter().collect::<U8Pieces>()
PiecesFromIter ==
    /\ built = "none"
    /\ built' = "from_iter"
    /\ \E ps \in PushLists :
          /\ pieces_buf' = U8Pieces_from_iter(ps, endian)
          /\ pushed' = ps
    /\ UNCHANGED <<endian, storeVars, matchVars, mapVars>>

\* pieces_buf.push(piece) for a piece of the bounded set
Push ==
    /\ built # "none"
    /\ Len(pushed) < MaxPushes
    /\ \E piece \in PushPieces :
          /\ pieces_buf' = U8Pieces_push(pieces_buf, piece, endian)
          /\ pushed' = Append(pushed, piece)
    /\ UNCHANGED <<endian, storeVars, built, matchVars, mapVars>>

NextPieces ==
    \/ PiecesNew
    \/ PiecesFrom
    \/ PiecesFromIter
    \/ Push

----------------------------------------------------------------------------
\* The ignore table as a state machine: filled, then asked about paths.

InitTable ==
    /\ endian = "little"
    /\ ctor = "none"
    /\ template = <<>>
    /\ pat = Pattern_new(U8Pieces_new, PatternFlags_empty)
    /\ op = "none"
    /\ strategy = "ExactMatch"
    /\ haystack = <<>>
    /\ result = None
    /\ InitBuf
    /\ InitMap
    /\ InitData

\* map.read_from(BufReader::new(f)) on the new map, as main does
ReadFrom ==
    /\ mop = "none" /\ map = PatternMap_new /\ file = <<>>
    /\ mop' = "read_from"
    /\ \E f \in Files :
          /\ file' = f
          /\ inserts' = read_from_inserts(f)
          /\ map' = read_from(map, f, endian)
    /\ UNCHANGED <<endian, storeVars, path, excluded, matchVars, bufVars>>

\* map.insert(Pattern::parse(t, &b'*'), d) for a template t and a directive d
Insert ==
    /\ mop = "none"
    /\ Cardinality(DOMAIN map) < MaxEntries
    /\ mop' = "insert"
    /\ \E t \in TableTemplates, d \in Directives :
          map' = PatternMap_insert(map, Pattern_parse(t, WILDCARD, endian), d)
    /\ UNCHANGED <<endian, storeVars, file, inserts, path, excluded, matchVars, bufVars>>

\* map.has_match(h) for a path h of the given set, the table iterated in any order
HasMatch(paths) ==
    /\ mop = "none"
    /\ mop' = "has_match"
    /\ \E h \in paths, entries \in IterOrders(map) :
          /\ path' = h
          /\ excluded' = has_match(entries, h, endian)
    /\ UNCHANGED <<endian, storeVars, map, file, inserts, matchVars, bufVars>>

\* The call returns; the table stays as it is.
MapReturn ==
    /\ mop # "none"
    /\ mop' = "none"
    /\ path' = <<>>
    /\ excluded' = FALSE
    /\ UNCHANGED <<endian, storeVars, map, file, inserts, matchVars, bufVars>>

\* A table read from an ignore file
NextIgnore ==
    \/ ReadFrom
    \/ HasMatch(Haystacks)
    \/ MapReturn

\* A table filled by insert
NextTable ==
    \/ Insert
    \/ HasMatch(TablePaths)
    \/ MapReturn

----------------------------------------------------------------------------
\* The time store as a state machine: opened on a state file, loaded, then
\* written to once for every file the walk finds changed.

\* The state files the tool is started on: none yet, or one an earlier run
\* left, also with a final newline, a blank line or CR LF line ends.
StoreFiles ==
    LET la == format_line(<<97>>, 10)
        lb == format_line(<<98>>, 255)
    IN  {<<>>, la, la \o <<10>>, la \o <<10>> \o lb,
         la \o <<10, 10>> \o lb, la \o <<13, 10>> \o lb}

\* State::empty(file) on the opened state file
InitStore ==
    /\ endian = "little"
    /\ ctor = "none"
    /\ template = <<>>
    /\ pat = Pattern_new(U8Pieces_new, PatternFlags_empty)
    /\ op = "none"
    /\ strategy = "ExactMatch"
    /\ haystack = <<>>
    /\ result = None
    /\ InitBuf
    /\ InitMap
    /\ source \in StoreFiles
    /\ cursor = 0
    /\ data = State_empty
    /\ sop = "empty"

\* state.read_all() on the new State, as main does; an error ends the run.
\* The BufReader takes the whole of a file this small in its first fill.
ReadAll ==
    /\ sop = "empty"
    /\ LET r == read_all(source, data)
       IN  /\ data' = r.data
           /\ sop' = IF r.ok THEN "read_all" ELSE "read_failed"
    /\ cursor' = Len(source)
    /\ UNCHANGED <<endian, source, matchVars, bufVars, mapVars>>

\* state.set_time_of(p, time) on a loaded State, or on one whose file is empty
SetTimeOf ==
    /\ sop \in {"read_all", "set_time_of"} \/ (sop = "empty" /\ source = <<>>)
    /\ sop' = "set_time_of"
    /\ \E p \in StorePaths, time \in StoreTimes :
          LET r == set_time_of(source, data, p, time)
          IN  /\ source' = r.source
              /\ cursor' = r.cursor
              /\ data' = r.data
    /\ UNCHANGED <<endian, matchVars, bufVars, mapVars>>

NextStore ==
    \/ ReadAll
    \/ SetTimeOf

vars == <<endian, matchVars, bufVars, mapVars, storeVars>>

SpecMatch == InitMatch /\ [][NextMatch]_vars

SpecScan == InitMatch /\ [][NextScan]_vars

SpecPieces == InitPieces /\ [][NextPieces]_vars

SpecIgnore == InitTable /\ [][NextIgnore]_vars

SpecTable == InitTable /\ [][NextTable]_vars

SpecStore == InitStore /\ [][NextStore]_vars

----------------------------------------------------------------------------
\* Properties of the matcher

\* The pieces the pattern iterates to
PatPieces == U8Pieces_pieces(pat.pieces, endian)

IsSuffixOf(r, h) == Len(r) <= Len(h) /\ r = SliceFrom(h, Len(h) - Len(r))

\* f places the pieces ps in h as windows the strategy m reports equivalent, in
\* piece order, without overlap, all of them within the first `upto` elements.
IsPlacement(f, ps, m, h, upto) ==
    /\ \A i \in 1..Len(ps) :
          /\ f[i] + Len(ps[i]) <= upto
          /\ is_equal(m, ps[i], Window(h, f[i], Len(ps[i])))
    /\ \A i \in 1..(Len(ps) - 1) : f[i] + Len(ps[i]) <= f[i + 1]

Placements(ps, m, h, upto) ==
    {f \in [1..Len(ps) -> 0..Len(h)] : IsPlacement(f, ps, m, h, upto)}

\* C1: when first_match returns Some(rest), rest is a suffix of the haystack,
\* the pieces occur in the haystack before rest as equivalent windows, in order
\* and without overlap, the first one at offset 0 unless the pattern is
\* start-unanchored, and rest is empty when the pattern is end-anchored.
C1_FirstMatchSound ==
    (op = "first_match" /\ result.some) =>
        /\ IsSuffixOf(result.val, haystack)
        /\ \E f \in Placements(PatPieces, strategy, haystack,
                               Len(haystack) - Len(result.val)) :
              (~is_start_unanchored(pat.flags) /\ PatPieces # <<>>) => f[1] = 0
        /\ is_end_anchored(pat.flags) => result.val = <<>>
        /\ \A i \in 1..Len(PatPieces) : Len(PatPieces[i]) > 0

\* A match of two pieces under both flags whose first window is not at offset 0.
C1_Witness ==
    /\ op = "first_match" /\ result.some
    /\ Len(PatPieces) = 2
    /\ is_start_unanchored(pat.flags) /\ is_end_anchored(pat.flags)
    /\ 0 \notin WindowOffsets(PatPieces[1], strategy, haystack)

\* Shell-glob matching of a template: each marker stands for any run of elements.
RECURSIVE GlobMatch(_, _, _)
GlobMatch(t, w, h) ==
    IF t = <<>> THEN h = <<>>
    ELSE IF Head(t) = w
         THEN GlobMatch(Tail(t), w, h) \/ (h # <<>> /\ GlobMatch(t, w, Tail(h)))
         ELSE h # <<>> /\ Head(h) = Head(t) /\ GlobMatch(Tail(t), w, Tail(h))

\* C2: under ExactMatch, first_match on a parsed template returns Some exactly
\* when the haystack is the template with each marker replaced by some run.
C2_GlobAgreement ==
    (ctor = "parse" /\ op = "first_match" /\ strategy = "ExactMatch") =>
        (result.some <=> GlobMatch(template, WILDCARD, haystack))

AsciiCaseEqual(a, b) ==
    \/ a = b
    \/ a >= 65 /\ a <= 90 /\ b = a + 32
    \/ b >= 65 /\ b <= 90 /\ a = b + 32

SeparatorPair(a, b) == {a, b} = {47, 92}

ElementEquivalent(m, a, b) ==
    CASE m = "ExactMatch" -> a = b
      [] m = "CaseInsensitive" -> AsciiCaseEqual(a, b)
      [] m = "PathMatch" -> AsciiCaseEqual(a, b) \/ SeparatorPair(a, b)

NoWildcard(t) == \A i \in 1..Len(t) : t[i] # WILDCARD

\* C3: for a template without a marker, first_match returns Some, with an empty
\* remainder, iff the haystack has the template's length and is equivalent to it
\* element by element under the strategy.
C3_LiteralTemplate ==
    (ctor = "parse" /\ op = "first_match" /\ NoWildcard(template)) =>
        /\ result.some <=>
              /\ Len(haystack) = Len(template)
              /\ \A i \in 1..Len(template) :
                    ElementEquivalent(strategy, template[i], haystack[i])
        /\ result.some => result.val = <<>>

\* A literal template matched by PathMatch through a separator pair.
C3_Witness ==
    /\ ctor = "parse" /\ op = "first_match" /\ NoWildcard(template)
    /\ strategy = "PathMatch" /\ result.some
    /\ Len(template) >= 2
    /\ \E i \in 1..Len(template) : SeparatorPair(template[i], haystack[i])

\* The maximal runs of non-marker elements of t, as (first, last) index pairs
Runs(t, w) ==
    {r \in (1..Len(t)) \X (1..Len(t)) :
        /\ r[1] <= r[2]
        /\ \A i \in r[1]..r[2] : t[i] # w
        /\ r[1] = 1 \/ t[r[1] - 1] = w
        /\ r[2] = Len(t) \/ t[r[2] + 1] = w}

\* pieces is the list of the runs of t, left to right
IsRunList(pieces, t, w) ==
    /\ Len(pieces) = Cardinality(Runs(t, w))
    /\ \E f \in [1..Len(pieces) -> Runs(t, w)] :
          /\ \A i \in 1..(Len(pieces) - 1) : f[i][2] < f[i + 1][1]
          /\ \A i \in 1..Len(pieces) : pieces[i] = SubSeq(t, f[i][1], f[i][2])

\* C4: a parsed pattern is start-unanchored iff the template's first element
\* is the marker, end-anchored iff its last element is not the marker (so an
\* empty template is end-anchored and not start-unanchored), and its pieces are
\* the non-empty fragments between markers, left to right, none of them empty.
C4_ParseShape ==
    ctor = "parse" =>
        /\ is_start_unanchored(pat.flags) <=>
              (template # <<>> /\ template[1] = WILDCARD)
        /\ is_end_anchored(pat.flags) <=>
              ~(template # <<>> /\ template[Len(template)] = WILDCARD)
        /\ IsRunList(PatPieces, template, WILDCARD)
        /\ \A i \in 1..Len(PatPieces) : Len(PatPieces[i]) > 0

\* A template of a doubled leading marker and one piece.
C4_Witness ==
    /\ ctor = "parse"
    /\ Len(template) = 3 /\ template[1] = WILDCARD /\ template[2] = WILDCARD
    /\ Len(PatPieces) = 1

\* C6: over an empty piece sequence, suffix_matches returns the haystack
\* unchanged and matches returns a result iff the haystack is empty.
C6_EmptyPieces ==
    PatPieces = <<>> =>
        /\ op = "suffix_matches" => result = Some(haystack)
        /\ op = "matches" => (result.some <=> haystack = <<>>)
        /\ (op = "matches" /\ result.some) => result.val = haystack

\* matches over no pieces and a non-empty haystack
C6_Witness ==
    /\ PatPieces = <<>> /\ ctor = "new"
    /\ op = "matches" /\ haystack # <<>> /\ ~result.some

\* Where the first k pieces end at the earliest: the least end of the k-th
\* window over all placements of the first k pieces; 0 for no piece, and -1
\* when the first k pieces have no placement.
EarliestEnd(ps, m, h, k) ==
    LET ends == {f[k] + Len(ps[k]) : f \in Placements(SubSeq(ps, 1, k), m, h, Len(h))}
    IN  IF k = 0 THEN 0 ELSE IF ends = {} THEN -1 ELSE SetMin(ends)

\* Piece k has no equivalent window in what the haystack has left after the
\* pieces before it.
PieceFails(ps, m, h, k) ==
    /\ EarliestEnd(ps, m, h, k - 1) >= 0
    /\ WindowOffsets(ps[k], m, SliceFrom(h, EarliestEnd(ps, m, h, k - 1))) = {}

\* C13: the leftmost-piece scan is complete for existence. For non-empty
\* pieces, suffix_matches returns Some iff the pieces have some placement in
\* the haystack as in-order, non-overlapping equivalent windows; it returns
\* None exactly when some piece has no equivalent window in the haystack
\* remaining after the previous piece; and a returned remainder starts right
\* after the lowest-offset window of the last piece and is the longest
\* remainder any placement leaves.
C13_ScanComplete ==
    (op = "suffix_matches" /\ \A i \in 1..Len(PatPieces) : Len(PatPieces[i]) > 0) =>
        LET ps == PatPieces
            n == Len(ps)
            all == Placements(ps, strategy, haystack, Len(haystack))
            before == EarliestEnd(ps, strategy, haystack, n - 1)
        IN  /\ result.some <=> all # {}
            /\ ~result.some <=> \E k \in 1..n : PieceFails(ps, strategy, haystack, k)
            /\ (result.some /\ n = 0) => result.val = haystack
            /\ (result.some /\ n > 0) =>
                  /\ result.val =
                        SliceFrom(haystack,
                                  before + Len(ps[n])
                                  + SetMin(WindowOffsets(ps[n], strategy,
                                                         SliceFrom(haystack, before))))
                  /\ \A f \in all :
                        Len(haystack) - (f[n] + Len(ps[n])) <= Len(result.val)

\* Two pieces that can be placed in more than one way, the last one with a
\* later window than the one taken, and a remainder left over.
C13_Witness ==
    /\ op = "suffix_matches" /\ result.some
    /\ Len(PatPieces) = 2
    /\ Cardinality(Placements(PatPieces, strategy, haystack, Len(haystack))) > 1
    /\ result.val # <<>>

----------------------------------------------------------------------------
\* Properties of the packed buffer

RECURSIVE TotalLen(_)
TotalLen(ps) == IF ps = <<>> THEN 0 ELSE Len(Head(ps)) + TotalLen(Tail(ps))

\* C5: iterating a U8Pieces built by From, FromIterator or pushes yields
\* exactly the non-empty pieces it was given, in order and with the same count;
\* empty pieces add nothing to the buffer.
C5_RoundTrip ==
    built # "none" =>
        LET given == SelectSeq(pushed, NonEmptyPiece)
            got == U8Pieces_pieces(pieces_buf, endian)
        IN  /\ Len(got) = Len(given)
            /\ \A i \in 1..Len(given) : got[i] = given[i]
            /\ Len(pieces_buf) = size_of_usize * Len(given) + TotalLen(given)

\* A buffer filled by three push calls, the second with an empty piece, on a
\* big-endian target.
C5_Witness ==
    /\ built = "new"
    /\ Len(pushed) = 3
    /\ pushed[1] # <<>> /\ pushed[2] = <<>> /\ pushed[3] # <<>>
    /\ Len(U8Pieces_pieces(pieces_buf, endian)) = 2
    /\ endian = "big"

----------------------------------------------------------------------------
\* Properties of the ignore table

\* The table's patterns stored with directive d that match the path
Matching(d) ==
    {p \in DOMAIN map : map[p] = d /\ first_match(p, "PathMatch", path, endian).some}

\* C7 as stated: when an Exclude-directive pattern matches the path, has_match
\* reports the path as excluded (true), whatever Include patterns match too.
C7_ExcludeMatchExcludes ==
    (mop = "has_match" /\ Matching("Exclude") # {}) => excluded = TRUE

\* C7, amended: when an Exclude-directive pattern matches the path, has_match
\* returns false (the walk keeps the path), however many Include-directive
\* patterns match too and in whatever order the table is iterated.
C7_ExcludeMatchKeeps ==
    (mop = "has_match" /\ Matching("Exclude") # {}) => excluded = FALSE

\* One matching Exclude pattern beside two matching Include patterns.
C7_Witness ==
    /\ mop = "has_match"
    /\ Cardinality(Matching("Exclude")) = 1
    /\ Cardinality(Matching("Include")) = 2
    /\ excluded = FALSE

\* The patterns of the file's lines that begin with '!'
BangPatterns ==
    {Pattern_parse(Tail(str_trim(file[i])), WILDCARD, endian) :
        i \in {j \in 1..Len(file) : str_trim(file[j]) # <<>> /\ str_trim(file[j])[1] = 33}}

\* C8: a path matched by the pattern of some line beginning with '!' is always
\* included: has_match returns false for it, whatever the file's other lines.
C8_BangAlwaysIncluded ==
    (mop = "has_match"
        /\ \E p \in BangPatterns : first_match(p, "PathMatch", path, endian).some)
    => excluded = FALSE

\* C9: when no Exclude-directive pattern matches the path, has_match returns
\* true iff some Include-directive pattern matches; with no match at all, or
\* an empty table, it returns false.
C9_IncludeDecides ==
    (mop = "has_match" /\ Matching("Exclude") = {}) =>
        /\ excluded <=> Matching("Include") # {}
        /\ (Matching("Include") = {} \/ map = PatternMap_new) => excluded = FALSE

\* A matching Include pattern beside an Exclude pattern that does not match.
C9_Witness ==
    /\ mop = "has_match"
    /\ Matching("Exclude") = {} /\ Matching("Include") # {}
    /\ \E p \in DOMAIN map : map[p] = "Exclude"
    /\ excluded = TRUE

\* What the claim has a line register: nothing for a blank or '#' line, the
\* text after '!' as Exclude, the text after '\' as Include, and the whole
\* trimmed line as Include otherwise.
ExpectedEntry(line) ==
    LET t == str_trim(line)
    IN  IF t = <<>> \/ t[1] = 35 THEN <<>>
        ELSE IF t[1] = 33 THEN <<[text |-> Tail(t), directive |-> "Exclude"]>>
        ELSE IF t[1] = 92 THEN <<[text |-> Tail(t), directive |-> "Include"]>>
        ELSE <<[text |-> t, directive |-> "Include"]>>

RECURSIVE ExpectedInserts(_)
ExpectedInserts(lines) ==
    IF lines = <<>> THEN <<>>
    ELSE ExpectedEntry(Head(lines)) \o ExpectedInserts(Tail(lines))

\* C10: read_from registers exactly one pattern for every line that, trimmed,
\* is non-empty and does not begin with '#', as the line's first character
\* says, whatever that character is.
C10_OneEntryPerLine ==
    mop = "read_from" => inserts = ExpectedInserts(file)

\* C11: the result of has_match does not depend on the order in which the
\* table is iterated: every permutation of the entries, with the early return
\* on an Exclude match taken where it is reached, gives the boolean returned.
C11_OrderIndependent ==
    mop = "has_match" =>
        \A entries \in IterOrders(map) : has_match(entries, path, endian) = excluded

\* A table of three entries where one Include and one Exclude pattern match
\* the path, so that the orders differ in which match is visited first.
C11_Witness ==
    /\ mop = "has_match"
    /\ Cardinality(DOMAIN map) = 3
    /\ Cardinality(Matching("Exclude")) = 1
    /\ Cardinality(Matching("Include")) = 1

----------------------------------------------------------------------------
\* Properties of the time store

\* The byte at 0-based position `offset` of the file is where a line starts
\* that holds the path p with the time the State has for it.
LineStartsAt(src, offset, p, time) ==
    /\ offset = 0 \/ (offset <= Len(src) /\ src[offset] = 10)
    /\ Window(src, offset, Len(format_line(p, time))) = format_line(p, time)

\* C12: after any sequence of successful set_time_of calls, on a file that
\* was empty or loaded with read_all, the backing file read from the
\* beginning by read_all into a fresh State gives for every path the time_of
\* of the State in memory, and every stored offset is the byte position
\* where that path's line starts.
C12_FileMatchesState ==
    sop = "set_time_of" =>
        LET fresh == read_all(source, State_empty)
        IN  /\ fresh.ok
            /\ DOMAIN fresh.data = DOMAIN data
            /\ \A p \in DOMAIN data :
                  /\ time_of(fresh.data, p) = time_of(data, p)
                  /\ LineStartsAt(source, data[p].offset, p, data[p].time)

====
